---- MODULE Spec2Model ----
(***************************************************************************)
(* nanopolish trainmodel (src/src/nanopolish_trainmodel.cpp): option       *)
(* parsing, alignment extraction, training-data aggregation, best-read     *)
(* selection, model construction from per-k-mer medians, and per-read      *)
(* recalibration.                                                          *)
(*                                                                         *)
(* Conventions.  C++ indices are 0-based and kept 0-based in every value   *)
(* the program stores (ki, event_idx, optind, max_events_index ...); a     *)
(* TLA+ sequence s holds C++ element i at s[i + 1].  A double is modelled  *)
(* by an integer; input levels are even, so that the division by 2.0f in   *)
(* the even-count median is exact.  A std::string is a sequence of one-    *)
(* letter strings.                                                         *)
(***************************************************************************)
EXTENDS Integers, Sequences, FiniteSets, TLC

VARIABLES
    pc,                 \* position in trainmodel_main
    argv,               \* argument vector, argv[1] is the program name
    optind,             \* getopt's index of the next argument (0-based)
    verbose,            \* opt::verbose
    fofn_file,          \* opt::fofn_file
    out,                \* what was written to std::cout / stdout
    err,                \* what was written to std::cerr / stderr
    exit_status,        \* "running", "EXIT_SUCCESS", "EXIT_FAILURE", "SIGSEGV", "SIGABRT"
    disk,               \* the files: path of a file list -> its lines
    fofn_reader,        \* the std::ifstream of the file list
    reads,              \* std::vector<SquiggleRead*>, each pointer shown as its object
    heap,               \* indices of the reads that are allocated
    tsv_writer,         \* the lines written to trainmodel.tsv, <<"closed">> before fopen
    read_idx,           \* loop index of the extraction loop
    alignment,          \* the unfiltered alignment each read got at line 208
    read_training_data, \* std::vector<KmerTrainingData>
    rti,                \* loop index of the selection loop
    max_events,
    max_events_index,
    pore_model,         \* the PoreModel built in trainmodel_main
    selected,           \* kmer_training_data_for_selected (a reference)
    use_kmer,
    ki,                 \* loop index of the model construction loop
    values,             \* the sorted values of the last k-mer of that loop
    median,             \* the median local of the last k-mer of that loop
    apply_idx,          \* loop index of the "apply model" loop
    recal_idx,          \* loop index of the recalibration loop
    recalibrated,       \* the calls made to recalibrate_model: read index, alignment
    call                \* a single call of generate_alignment_to_basecalls and its outcome

vars == <<pc, argv, optind, verbose, fofn_file, out, err, exit_status, disk,
          fofn_reader, reads, heap, tsv_writer, read_idx, alignment,
          read_training_data, rti, max_events, max_events_index, pore_model,
          selected, use_kmer, ki, values, median, apply_idx, recal_idx,
          recalibrated, call>>

----------------------------------------------------------------------------
(* Bounds of the model                                                     *)

\* most lines in a file list
MaxReads == 2
\* most arguments after the program name
MaxArgs == 3
\* longest basecalled sequence of a single call of generate_alignment_to_basecalls
MaxSeqLen == 6
\* size_t is 64 bits wide in the build; the model keeps the wrap-around at a
\* width TLC's integers can hold
SizeBits == 16

SizeModulus == 2 ^ SizeBits

Min(a, b) == IF a < b THEN a ELSE b
Max(a, b) == IF a > b THEN a ELSE b

----------------------------------------------------------------------------
(* The k-mer alphabet (gDNAAlphabet, nanopolish_alphabet.h, not in src/)   *)

\* the DNA alphabet has the four letters ACGT; two of them keep the k-mer
\* table (4^5 = 1024 entries in the program) at 2^5 = 32 entries
Alphabet == <<"A", "C">>

\* trainmodel_main, line 194
basecalled_k == 5
\* T_IDX and C_IDX of nanopolish_squiggle_read.h; training_strand = T_IDX
T_IDX == 0
C_IDX == 1
training_strand == T_IDX

base_rank(b) == (CHOOSE i \in 1..Len(Alphabet) : Alphabet[i] = b) - 1

get_num_strings(k) == Len(Alphabet) ^ k

RECURSIVE kmer_rank(_, _)
kmer_rank(str, k) ==
    IF k = 0 THEN 0
    ELSE kmer_rank(str, k - 1) * Len(Alphabet) + base_rank(str[k])

num_kmers == get_num_strings(basecalled_k)
Ranks == 0..(num_kmers - 1)

\* substr(pos, n) of a std::string, for pos <= size()
substr(s, pos, n) == SubSeq(s, pos + 1, Min(pos + n, Len(s)))

Rep(c, n) == [i \in 1..n |-> c]

RECURSIVE Strings(_)
Strings(n) ==
    IF n = 0 THEN {<<>>}
    ELSE {Append(s, Alphabet[i]) : s \in Strings(n - 1), i \in 1..Len(Alphabet)}

----------------------------------------------------------------------------
(* parse_trainmodel_options                                                *)

Options == {"-v", "--help", "--version", "--bogus"}
FofnPaths == {"a.fofn", "b.fofn"}
Tokens == Options \cup FofnPaths

RECURSIVE ArgLists(_)
ArgLists(n) ==
    IF n = 0 THEN {<<>>}
    ELSE ArgLists(n - 1) \cup
         {Append(a, t) : a \in {b \in ArgLists(n - 1) : Len(b) = n - 1}, t \in Tokens}

\* the non-option arguments, in order: GNU getopt_long permutes argv so that
\* they end up last, and leaves optind at the first of them
Positionals(args) == SelectSeq(args, LAMBDA a : a \notin Options)
OptionArgs(args) == SelectSeq(args, LAMBDA a : a \in Options)

\* The for loop over getopt_long (lines 75-88), from argument i (0-based) on.
\* st is  [die, verbose, out, err, exit].  The loop variable is a char compared
\* with -1: the model is of a build whose char is signed, as on x86.
RECURSIVE getopt_loop(_, _, _)
getopt_loop(av, i, st) ==
    IF i >= Len(av) THEN st
    ELSE LET a == av[i + 1] IN
         CASE a = "-v" ->
                getopt_loop(av, i + 1, [st EXCEPT !.verbose = @ + 1])
           [] a = "--help" ->
                [st EXCEPT !.out = Append(@, "USAGE"), !.exit = "EXIT_SUCCESS"]
           [] a = "--version" ->
                [st EXCEPT !.out = Append(@, "VERSION"), !.exit = "EXIT_SUCCESS"]
           [] a \in Options ->
                \* an option longopts does not list: getopt_long reports it on
                \* stderr itself and returns '?'
                getopt_loop(av, i + 1,
                    [st EXCEPT !.die = TRUE,
                               !.err = Append(@, "unrecognized option")])
           [] OTHER ->
                getopt_loop(av, i + 1, st)

\* check_arguments without the test for too many arguments
check_arguments_no_upper(av, st) ==
    LET argc == Len(av)
        oi == argc - Len(Positionals(Tail(av)))
        st1 == IF argc - oi < 1
               THEN [st EXCEPT !.err = Append(@, "not enough arguments"), !.die = TRUE]
               ELSE st
    IN IF st1.die
       THEN [st1 EXCEPT !.out = Append(@, "USAGE"), !.exit = "EXIT_FAILURE"]
       ELSE st1

\* check_arguments with the usage message sent to std::cerr
check_arguments_usage_cerr(av, st) ==
    LET argc == Len(av)
        oi == argc - Len(Positionals(Tail(av)))
        st1 == IF argc - oi < 1
               THEN [st EXCEPT !.err = Append(@, "not enough arguments"), !.die = TRUE]
               ELSE st
        st2 == IF argc - oi > 1
               THEN [st1 EXCEPT !.err = Append(@, "too many arguments"), !.die = TRUE]
               ELSE st1
    IN IF st2.die
       THEN [st2 EXCEPT !.err = Append(@, "USAGE"), !.exit = "EXIT_FAILURE"]
       ELSE st2

\* Lines 90-104: the argument count checks and the exit.
check_arguments(av, st) ==
    LET argc == Len(av)
        oi == argc - Len(Positionals(Tail(av)))
        few == argc - oi < 1
        many == argc - oi > 1
        st1 == IF few THEN [st EXCEPT !.err = Append(@, "not enough arguments"),
                                      !.die = TRUE]
               ELSE st
        st2 == IF many THEN [st1 EXCEPT !.err = Append(@, "too many arguments"),
                                        !.die = TRUE]
               ELSE st1
    IN IF st2.die
       THEN [st2 EXCEPT !.out = Append(@, "USAGE"), !.exit = "EXIT_FAILURE"]
       ELSE st2

parse_trainmodel_options(av, st0) ==
    LET st == getopt_loop(av, 1, st0)
    IN IF st.exit # "running" THEN st ELSE check_arguments(av, st)

ParseOptions ==
    /\ pc = "parse"
    /\ LET st == parse_trainmodel_options(argv,
                    [die |-> FALSE, verbose |-> verbose, out |-> out,
                     err |-> err, exit |-> "running"])
           permuted == <<argv[1]>> \o OptionArgs(Tail(argv)) \o Positionals(Tail(argv))
           oi == Len(argv) - Len(Positionals(Tail(argv)))
       IN /\ verbose' = st.verbose
          /\ out' = st.out
          /\ err' = st.err
          /\ exit_status' = st.exit
          /\ IF st.exit # "running"
             THEN /\ pc' = "exited"
                  /\ UNCHANGED <<argv, optind, fofn_file>>
             ELSE /\ pc' = "open"
                  /\ argv' = permuted
                  /\ fofn_file' = permuted[oi + 1]
                  /\ optind' = oi + 1
    /\ UNCHANGED <<disk, fofn_reader, reads, heap, tsv_writer, read_idx, alignment,
                   read_training_data, rti, max_events, max_events_index,
                   pore_model, selected, use_kmer, ki, values, median, apply_idx,
                   recal_idx, recalibrated, call>>

----------------------------------------------------------------------------
(* Reads (SquiggleRead, nanopolish_squiggle_read.h, not in src/)           *)

IndexPair(a, b) == [start |-> a, stop |-> b]
NoEvents == IndexPair(-1, -1)

\* one entry of base_to_event_map: the event range of a k-mer on each strand
MapEntry(t, c) == [indices |-> <<t, c>>]

Event(m) == [mean |-> m, stdv |-> 1]

\* PoreModelStateParams as std::vector::resize value-initialises it
DefaultState == [level_mean |-> 0, level_stdv |-> 0]

\* the model a read carries when it is loaded
LoadedModel ==
    [k |-> basecalled_k, shift |-> 1, scale |-> 2, drift |-> 1, var |-> 3,
     scale_sd |-> 1, var_sd |-> 1,
     states |-> [r \in Ranks |-> DefaultState], baked |-> TRUE]

SquiggleRead(seq, map, tev, cev) ==
    [read_sequence |-> seq, base_to_event_map |-> map,
     events |-> <<tev, cev>>, pore_model |-> <<LoadedModel, LoadedModel>>]

\* The FAST5 files of the model's file system.  base_to_event_map has one
\* entry per k-mer of the sequence, none when the sequence is shorter than k.
Fast5 ==
    [b5 |-> \* CCCCC twice (levels 8, 4), four k-mers without events, then
            \* AAAAA three times (levels 6, 2, 4)
        SquiggleRead(Rep("C", 6) \o Rep("A", 7),
            <<MapEntry(IndexPair(0, 0), NoEvents),
              MapEntry(IndexPair(1, 1), IndexPair(0, 0)),
              MapEntry(NoEvents, IndexPair(0, 1)),
              MapEntry(NoEvents, NoEvents),
              MapEntry(NoEvents, NoEvents),
              MapEntry(IndexPair(1, 2), NoEvents),
              MapEntry(IndexPair(2, 2), IndexPair(1, 1)),
              MapEntry(IndexPair(3, 3), IndexPair(1, 1)),
              MapEntry(IndexPair(4, 4), IndexPair(1, 1))>>,
            <<Event(8), Event(4), Event(6), Event(2), Event(4)>>,
            <<Event(10), Event(12)>>),
     r2 |-> \* AAAAA at level 4 and AAAAC at level 8
        SquiggleRead(Rep("A", 5) \o <<"C">>,
            <<MapEntry(IndexPair(0, 0), IndexPair(0, 0)),
              MapEntry(IndexPair(1, 1), NoEvents)>>,
            <<Event(4), Event(8)>>, <<Event(10)>>),
     p2 |-> \* AAAAA twice, second event first: levels 6 then 2
        SquiggleRead(Rep("A", 6),
            <<MapEntry(IndexPair(1, 1), NoEvents),
              MapEntry(IndexPair(0, 0), IndexPair(0, 0))>>,
            <<Event(2), Event(6)>>, <<Event(10)>>),
     c1 |-> \* CCCCC once, at level 2
        SquiggleRead(Rep("C", 5),
            <<MapEntry(IndexPair(0, 0), IndexPair(0, 0))>>,
            <<Event(2)>>, <<Event(10)>>),
     m4 |-> \* CAAAA without events, AAAAA and AAAAC with one, AAACC with two
        SquiggleRead(<<"C">> \o Rep("A", 5) \o <<"C", "C">>,
            <<MapEntry(NoEvents, IndexPair(0, 0)),
              MapEntry(IndexPair(0, 0), IndexPair(0, 0)),
              MapEntry(IndexPair(1, 1), IndexPair(0, 0)),
              MapEntry(IndexPair(2, 3), IndexPair(0, 0))>>,
            <<Event(8), Event(0), Event(4), Event(2)>>, <<Event(10)>>),
     z0 |-> \* two k-mers, neither with exactly one event
        SquiggleRead(<<"C">> \o Rep("A", 5),
            <<MapEntry(NoEvents, IndexPair(0, 0)),
              MapEntry(IndexPair(0, 1), IndexPair(0, 0))>>,
            <<Event(4), Event(8)>>, <<Event(10)>>),
     s4 |-> \* a sequence of k - 1 bases: no k-mer
        SquiggleRead(<<"A", "C", "A", "C">>, <<>>, <<Event(4)>>, <<>>),
     e0 |-> \* an empty sequence
        SquiggleRead(<<>>, <<>>, <<Event(2)>>, <<>>)]

Fast5Names == DOMAIN Fast5

RECURSIVE FileLists(_)
FileLists(n) ==
    IF n = 0 THEN {<<>>}
    ELSE FileLists(n - 1) \cup
         {Append(l, f) : l \in {x \in FileLists(n - 1) : Len(x) = n - 1},
                         f \in Fast5Names}

----------------------------------------------------------------------------
(* generate_alignment_to_basecalls                                         *)

\* the use_kmer argument: NULL, or a pointer to a std::vector<bool>
NullFilter == [null |-> TRUE, at |-> [r \in Ranks |-> FALSE]]
Filter(v) == [null |-> FALSE, at |-> v]

\* line 117
n_kmers(read_sequence, k) == (Len(read_sequence) - k + 1) % SizeModulus

EventAlignment(kmer, pos, strand_idx, event_idx) ==
    [ref_name |-> "", ref_kmer |-> kmer, ref_position |-> pos, read_idx |-> -1,
     strand_idx |-> strand_idx, event_idx |-> event_idx, rc |-> FALSE,
     model_kmer |-> kmer, hmm_state |-> "M"]

\* align_step without the test for several events (start != stop)
align_step_any_events(read, k, strand_idx, filter, pos, sofar) ==
    LET event_range_for_kmer == read.base_to_event_map[pos + 1].indices[strand_idx + 1]
    IN IF event_range_for_kmer.start = -1
       THEN sofar
       ELSE LET kmer == substr(read.read_sequence, pos, k)
                rank == kmer_rank(kmer, k)
                event_idx == event_range_for_kmer.start
            IN IF filter.null \/ filter.at[rank]
               THEN Append(sofar, EventAlignment(kmer, pos, strand_idx, event_idx))
               ELSE sofar

\* align_step without the test of use_kmer
align_step_unfiltered(read, k, strand_idx, filter, pos, sofar) ==
    LET event_range_for_kmer == read.base_to_event_map[pos + 1].indices[strand_idx + 1]
    IN IF \/ event_range_for_kmer.start = -1
          \/ event_range_for_kmer.start # event_range_for_kmer.stop
       THEN sofar
       ELSE LET kmer == substr(read.read_sequence, pos, k)
                event_idx == event_range_for_kmer.start
            IN Append(sofar, EventAlignment(kmer, pos, strand_idx, event_idx))

\* lines 120-148: one iteration of the loop, for a ki inside base_to_event_map
align_step(read, k, strand_idx, filter, pos, sofar) ==
    LET event_range_for_kmer == read.base_to_event_map[pos + 1].indices[strand_idx + 1]
    IN IF \/ event_range_for_kmer.start = -1
          \/ event_range_for_kmer.start # event_range_for_kmer.stop
       THEN sofar
       ELSE LET kmer == substr(read.read_sequence, pos, k)
                rank == kmer_rank(kmer, k)
                event_idx == event_range_for_kmer.start
            IN IF filter.null \/ filter.at[rank]
               THEN Append(sofar, EventAlignment(kmer, pos, strand_idx, event_idx))
               ELSE sofar

\* the alignment after the iterations ki = 0 .. n - 1
RECURSIVE align_loop(_, _, _, _, _)
align_loop(read, k, strand_idx, filter, n) ==
    IF n = 0 THEN <<>>
    ELSE align_step(read, k, strand_idx, filter, n - 1,
                    align_loop(read, k, strand_idx, filter, n - 1))

Returned(a, n, acc) ==
    [status |-> "returned", signal |-> "none", alignment |-> a, n_kmers |-> n,
     accessed |-> acc]
Killed(sig, n, acc) ==
    [status |-> "killed", signal |-> sig, alignment |-> <<>>, n_kmers |-> n,
     accessed |-> acc]

\* The outcomes of a call; accessed counts the positions ki at which
\* base_to_event_map was read, up to the first one outside the vector.
\* An access base_to_event_map[ki] with ki >= size() is undefined.  It only
\* happens when line 117 has wrapped around, and then the loop has more
\* iterations ahead than the address space has bytes: no build returns from
\* the call.  The process is killed by an access to unmapped memory, or, when
\* stray bytes pass the test of line 123 at a ki > read_sequence.size(), by the
\* std::out_of_range that substr throws and nothing catches.
generate_alignment_to_basecalls(read, k, strand_idx, filter) ==
    LET n == n_kmers(read.read_sequence, k)
        m == Len(read.base_to_event_map)
    IN IF n <= m
       THEN {Returned(align_loop(read, k, strand_idx, filter, n), n, n)}
       ELSE {Killed("SIGSEGV", n, m + 1), Killed("SIGABRT", n, m + 1)}

----------------------------------------------------------------------------
(* alignment_to_training_data                                              *)

StateTrainingData(level, stdv, var) ==
    [level_mean |-> level, level_stdv |-> stdv, read_var |-> var]

EmptyTrainingData == [r \in Ranks |-> <<>>]

\* lines 162-173
RECURSIVE training_loop(_, _, _, _)
training_loop(read, a, k, n) ==
    IF n = 0 THEN EmptyTrainingData
    ELSE LET prev == training_loop(read, a, k, n - 1)
             e == a[n]
             kmer_rank_ == kmer_rank(e.model_kmer, k)
             ev == read.events[e.strand_idx + 1][e.event_idx + 1]
             std == StateTrainingData(ev.mean, ev.stdv,
                                      read.pore_model[e.strand_idx + 1].var)
         IN [prev EXCEPT ![kmer_rank_] = Append(@, std)]

\* The event ranges of base_to_event_map lie inside read->events: SquiggleRead
\* builds the one from the other.
alignment_to_training_data(read, a, k, read_idx_) ==
    training_loop(read, a, k, Len(a))

----------------------------------------------------------------------------
(* trainmodel_main                                                         *)

Closed == <<"closed">>
NoModel == [k |-> 0, shift |-> 0, scale |-> 0, drift |-> 0, var |-> 0,
            scale_sd |-> 0, var_sd |-> 0,
            states |-> [r \in Ranks |-> DefaultState], baked |-> FALSE]
NoCall == [status |-> "none"]

\* everything but the position, before trainmodel_main has done anything
Fresh(av, d) ==
    /\ argv = av
    /\ optind = 1
    /\ verbose = 0
    /\ fofn_file = ""
    /\ out = <<>>
    /\ err = <<>>
    /\ exit_status = "running"
    /\ disk = d
    /\ fofn_reader = [path |-> "", lines |-> <<>>, pos |-> 0]
    /\ reads = <<>>
    /\ heap = {}
    /\ tsv_writer = Closed
    /\ read_idx = 0
    /\ alignment = <<>>
    /\ read_training_data = <<>>
    /\ rti = 0
    /\ max_events = 0
    /\ max_events_index = 0
    /\ pore_model = NoModel
    /\ selected = EmptyTrainingData
    /\ use_kmer = [r \in Ranks |-> FALSE]
    /\ ki = 0
    /\ values = <<>>
    /\ median = 0
    /\ apply_idx = 0
    /\ recal_idx = 0
    /\ recalibrated = <<>>

\* the state trainmodel_main starts in, for an argument vector and a file system
Start(av, d) ==
    /\ pc = "parse"
    /\ call = NoCall
    /\ Fresh(av, d)

\* a file system: the file list a.fofn with the given lines, b.fofn empty
Disk(lines) == [p \in FofnPaths |-> IF p = "a.fofn" THEN lines ELSE <<>>]

\* line 182: the file list is opened; a file that cannot be read yields no line
OpenFofn ==
    /\ pc = "open"
    /\ fofn_reader' = [path |-> fofn_file,
                       lines |-> IF fofn_file \in DOMAIN disk THEN disk[fofn_file]
                                 ELSE <<>>,
                       pos |-> 0]
    /\ pc' = "load"
    /\ UNCHANGED <<argv, optind, verbose, fofn_file, out, err, exit_status, disk,
                   reads, heap, tsv_writer, read_idx, alignment,
                   read_training_data, rti, max_events, max_events_index,
                   pore_model, selected, use_kmer, ki, values, median, apply_idx,
                   recal_idx, recalibrated, call>>

\* lines 187-190: one iteration of the getline loop
LoadRead ==
    /\ pc = "load"
    /\ fofn_reader.pos < Len(fofn_reader.lines)
    /\ LET fast5_name == fofn_reader.lines[fofn_reader.pos + 1]
       IN /\ err' = Append(err, "Loading")
          /\ reads' = Append(reads, Fast5[fast5_name])
          /\ heap' = heap \cup {Len(reads)}
    /\ fofn_reader' = [fofn_reader EXCEPT !.pos = @ + 1]
    /\ UNCHANGED <<pc, argv, optind, verbose, fofn_file, out, exit_status, disk,
                   tsv_writer, read_idx, alignment, read_training_data, rti,
                   max_events, max_events_index, pore_model, selected, use_kmer,
                   ki, values, median, apply_idx, recal_idx, recalibrated, call>>

\* lines 191-204: the end of the file list, and trainmodel.tsv with its header
OpenTsv ==
    /\ pc = "load"
    /\ fofn_reader.pos >= Len(fofn_reader.lines)
    /\ err' = Append(err, "Loaded reads")
    /\ tsv_writer' = <<"read_idx kmer level_mean duration">>
    /\ read_idx' = 0
    /\ pc' = "extract"
    /\ UNCHANGED <<argv, optind, verbose, fofn_file, out, exit_status, disk,
                   fofn_reader, reads, heap, alignment, read_training_data, rti,
                   max_events, max_events_index, pore_model, selected, use_kmer,
                   ki, values, median, apply_idx, recal_idx, recalibrated, call>>

\* lines 205-224: one iteration of the extraction loop
ExtractRead ==
    /\ pc = "extract"
    /\ read_idx < Len(reads)
    /\ \E g \in generate_alignment_to_basecalls(reads[read_idx + 1], basecalled_k,
                                                 training_strand, NullFilter) :
          IF g.status = "killed"
          THEN /\ pc' = "killed"
               /\ exit_status' = g.signal
               /\ UNCHANGED <<alignment, read_training_data, read_idx>>
          ELSE /\ alignment' = Append(alignment, g.alignment)
               /\ read_training_data' = Append(read_training_data,
                      alignment_to_training_data(reads[read_idx + 1], g.alignment,
                                                 basecalled_k, read_idx))
               /\ read_idx' = read_idx + 1
               /\ UNCHANGED <<pc, exit_status>>
    /\ UNCHANGED <<argv, optind, verbose, fofn_file, out, err, disk, fofn_reader,
                   reads, heap, tsv_writer, rti, max_events, max_events_index,
                   pore_model, selected, use_kmer, ki, values, median, apply_idx,
                   recal_idx, recalibrated, call>>

\* lines 231-235
RECURSIVE total_events(_, _)
total_events(kmer_training_data, n) ==
    IF n = 0 THEN 0
    ELSE total_events(kmer_training_data, n - 1) + Len(kmer_training_data[n - 1])

\* the comparison of line 238 with >= for >
more_events_or_equal(total, most) == total >= most

\* line 238
more_events(total, most) == total > most

\* lines 226-228, once every read has its training data
SelectInit ==
    /\ pc = "extract"
    /\ read_idx >= Len(reads)
    /\ max_events' = 0
    /\ max_events_index' = 0
    /\ rti' = 0
    /\ pc' = "select"
    /\ UNCHANGED <<argv, optind, verbose, fofn_file, out, err, exit_status, disk,
                   fofn_reader, reads, heap, tsv_writer, read_idx, alignment,
                   read_training_data, pore_model, selected, use_kmer, ki, values,
                   median, apply_idx, recal_idx, recalibrated, call>>

\* lines 229-242: one iteration of the selection loop
SelectRead ==
    /\ pc = "select"
    /\ rti < Len(read_training_data)
    /\ LET total == total_events(read_training_data[rti + 1], num_kmers)
       IN /\ out' = Append(out, "read has events")
          /\ IF more_events(total, max_events)
             THEN /\ max_events' = total
                  /\ max_events_index' = rti
             ELSE UNCHANGED <<max_events, max_events_index>>
    /\ rti' = rti + 1
    /\ UNCHANGED <<pc, argv, optind, verbose, fofn_file, err, exit_status, disk,
                   fofn_reader, reads, heap, tsv_writer, read_idx, alignment,
                   read_training_data, pore_model, selected, use_kmer, ki, values,
                   median, apply_idx, recal_idx, recalibrated, call>>

\* lines 245-255: PoreModel pore_model(basecalled_k) with its tables resized
\* and its scalars set
new_pore_model ==
    [k |-> basecalled_k, shift |-> 0, scale |-> 1, drift |-> 0, var |-> 1,
     scale_sd |-> 1, var_sd |-> 1,
     states |-> [r \in Ranks |-> DefaultState], baked |-> FALSE]

\* the reference of line 257 bound to the first table whatever the index
selected_first(rtd, index) ==
    IF Len(rtd) > 0
    THEN {[status |-> "bound", signal |-> "none", data |-> rtd[1]]}
    ELSE {[status |-> "killed", signal |-> "SIGSEGV", data |-> EmptyTrainingData]}

\* Line 257: read_training_data[max_events_index].  With an index that is not
\* below size() the access is undefined.  It only happens with an empty
\* vector, whose storage is the null pointer: the reference is to address 0,
\* and its first use (size(), line 260) kills the process; a standard
\* library built with assertions aborts in operator[] instead.
selected_training_data(rtd, index) ==
    IF index < Len(rtd)
    THEN {[status |-> "bound", signal |-> "none", data |-> rtd[index + 1]]}
    ELSE {[status |-> "killed", signal |-> "SIGSEGV", data |-> EmptyTrainingData],
          [status |-> "killed", signal |-> "SIGABRT", data |-> EmptyTrainingData]}

\* lines 244-259, once the selection loop is over
InitModel ==
    /\ pc = "select"
    /\ rti >= Len(read_training_data)
    /\ pore_model' = new_pore_model
    /\ use_kmer' = [r \in Ranks |-> FALSE]
    /\ ki' = 0
    /\ \E s \in selected_training_data(read_training_data, max_events_index) :
          /\ selected' = s.data
          /\ IF s.status = "killed"
             THEN pc' = "killed" /\ exit_status' = s.signal
             ELSE pc' = "build" /\ UNCHANGED exit_status
    /\ UNCHANGED <<argv, optind, verbose, fofn_file, out, err, disk, fofn_reader,
                   reads, heap, tsv_writer, read_idx, alignment,
                   read_training_data, rti, max_events, max_events_index, values,
                   median, apply_idx, recal_idx, recalibrated, call>>

\* std::sort of a std::vector<double> (line 269)
RECURSIVE insert(_, _)
insert(v, x) ==
    IF v = <<>> THEN <<x>>
    ELSE IF x <= Head(v) THEN <<x>> \o v
    ELSE <<Head(v)>> \o insert(Tail(v), x)

RECURSIVE sort(_)
sort(v) == IF v = <<>> THEN <<>> ELSE insert(sort(Tail(v)), Head(v))

\* lines 261-266
level_means(data) == [i \in 1..Len(data) |-> data[i].level_mean]

\* the median without the even-count average
median_of_upper(v) ==
    LET n == Len(v)
    IN IF n = 0 THEN 0 ELSE v[(n \div 2) + 1]

\* lines 271-280, for the sorted values
median_of(v) ==
    LET n == Len(v)
    IN IF n = 0 THEN 0
       ELSE IF n % 2 = 0 THEN (v[(n \div 2 - 1) + 1] + v[(n \div 2) + 1]) \div 2
       ELSE v[(n \div 2) + 1]

\* lines 260-288: one iteration of the model construction loop
BuildKmer ==
    /\ pc = "build"
    /\ ki < num_kmers
    /\ LET v == sort(level_means(selected[ki]))
           m == median_of(v)
       IN /\ values' = v
          /\ median' = m
          /\ IF Len(v) = 0
             THEN UNCHANGED <<use_kmer, pore_model, out>>
             ELSE /\ use_kmer' = [use_kmer EXCEPT ![ki] = TRUE]
                  /\ pore_model' = [pore_model EXCEPT
                        !.states[ki] = [level_mean |-> m, level_stdv |-> 1]]
                  /\ out' = Append(out, "k median values")
    /\ ki' = ki + 1
    /\ UNCHANGED <<pc, argv, optind, verbose, fofn_file, err, exit_status, disk,
                   fofn_reader, reads, heap, tsv_writer, read_idx, alignment,
                   read_training_data, rti, max_events, max_events_index,
                   selected, apply_idx, recal_idx, recalibrated, call>>

\* line 289, once the construction loop is over
Bake ==
    /\ pc = "build"
    /\ ki >= num_kmers
    /\ pore_model' = [pore_model EXCEPT !.baked = TRUE]
    /\ apply_idx' = 0
    /\ recal_idx' = 0
    /\ pc' = "apply"
    /\ UNCHANGED <<argv, optind, verbose, fofn_file, out, err, exit_status, disk,
                   fofn_reader, reads, heap, tsv_writer, read_idx, alignment,
                   read_training_data, rti, max_events, max_events_index,
                   selected, use_kmer, ki, values, median, recalibrated, call>>


\* line 293: read->pore_model[training_strand] = pore_model
assign_model(read, strand_idx, model) ==
    [read EXCEPT !.pore_model[strand_idx + 1] = model]

\* lines 292-294: one iteration of the loop that applies the model
ApplyModel ==
    /\ pc = "apply"
    /\ apply_idx < Len(reads)
    /\ reads' = [reads EXCEPT ![apply_idx + 1] = assign_model(@, training_strand, pore_model)]
    /\ apply_idx' = apply_idx + 1
    /\ UNCHANGED <<pc, argv, optind, verbose, fofn_file, out, err, exit_status,
                   disk, fofn_reader, heap, tsv_writer, read_idx, alignment,
                   read_training_data, rti, max_events, max_events_index,
                   pore_model, selected, use_kmer, ki, values, median, recal_idx,
                   recalibrated, call>>

\* recalibrate_model (nanopolish_methyltrain.h, not in src/): the fit adjusts
\* shift, scale, drift and var of the read's own model on that strand, or
\* leaves them when there is nothing to fit.
Fits == {[shift |-> 2, scale |-> 3, drift |-> 1, var |-> 2]}

recalibrate_model(read, strand_idx, a) ==
    {read} \cup
    {[read EXCEPT !.pore_model[strand_idx + 1].shift = f.shift,
                  !.pore_model[strand_idx + 1].scale = f.scale,
                  !.pore_model[strand_idx + 1].drift = f.drift,
                  !.pore_model[strand_idx + 1].var = f.var] :
        f \in {x \in Fits : Len(a) > 0}}

\* a recalibration loop that stays at the first read
recalibration_target_first(idx) == 0

\* the read the recalibration loop is at (line 297)
recalibration_target(idx) == idx

\* lines 297-322: one iteration of the recalibration loop
RecalibrateRead ==
    /\ pc = "apply"
    /\ apply_idx >= Len(reads)
    /\ recal_idx < Len(reads)
    /\ LET at == recalibration_target(recal_idx)
       IN \E g \in generate_alignment_to_basecalls(reads[at + 1], basecalled_k,
                                                    training_strand, Filter(use_kmer)) :
          IF g.status = "killed"
          THEN /\ pc' = "killed"
               /\ exit_status' = g.signal
               /\ UNCHANGED <<reads, recalibrated, out, recal_idx>>
          ELSE /\ \E r \in recalibrate_model(reads[at + 1], training_strand, g.alignment) :
                     reads' = [reads EXCEPT ![at + 1] = r]
               /\ recalibrated' = Append(recalibrated,
                                         [read |-> at, alignment |-> g.alignment])
               /\ out' = Append(out, "recalibration")
               /\ recal_idx' = recal_idx + 1
               /\ UNCHANGED <<pc, exit_status>>
    /\ UNCHANGED <<argv, optind, verbose, fofn_file, err, disk, fofn_reader, heap,
                   tsv_writer, read_idx, alignment, read_training_data, rti,
                   max_events, max_events_index, pore_model, selected, use_kmer,
                   ki, values, median, apply_idx, call>>

\* lines 324-329: the reads are deleted and trainmodel_main returns 0
Free ==
    /\ pc = "apply"
    /\ apply_idx >= Len(reads)
    /\ recal_idx >= Len(reads)
    /\ heap' = {}
    /\ exit_status' = "EXIT_SUCCESS"
    /\ pc' = "done"
    /\ UNCHANGED <<argv, optind, verbose, fofn_file, out, err, disk, fofn_reader,
                   reads, tsv_writer, read_idx, alignment, read_training_data,
                   rti, max_events, max_events_index, pore_model, selected,
                   use_kmer, ki, values, median, apply_idx, recal_idx,
                   recalibrated, call>>

Next ==
    \/ ParseOptions
    \/ OpenFofn
    \/ LoadRead
    \/ OpenTsv
    \/ ExtractRead
    \/ SelectInit
    \/ SelectRead
    \/ InitModel
    \/ BuildKmer
    \/ Bake
    \/ ApplyModel
    \/ RecalibrateRead
    \/ Free

\* trainmodel_main on every file list of at most MaxReads files, called with
\* the file list as its only argument or with none
Init ==
    \E av \in {<<"trainmodel", "a.fofn">>, <<"trainmodel", "-v", "a.fofn">>,
               <<"trainmodel">>} :
    \E l \in FileLists(MaxReads) : Start(av, Disk(l))

Spec == Init /\ [][Next]_vars

\* trainmodel_main on every argument vector of at most MaxArgs arguments
InitArgs ==
    \E a \in ArgLists(MaxArgs) :
    \E l \in {<<>>, <<"r2">>, <<"e0", "c1">>} : Start(<<"trainmodel">> \o a, Disk(l))

SpecArgs == InitArgs /\ [][Next]_vars

----------------------------------------------------------------------------
(* A single call of generate_alignment_to_basecalls                        *)

\* the event range of the k-mer at pos: none, the event pos, or two events
Shapes == {"none", "one", "many"}
Range(shape, pos) ==
    CASE shape = "none" -> NoEvents
      [] shape = "one" -> IndexPair(pos, pos)
      [] OTHER -> IndexPair(pos, pos + 1)

\* every base_to_event_map of m k-mers
Maps(m) ==
    {[i \in 1..m |-> MapEntry(Range(f[i][1], i - 1), Range(f[i][2], i - 1))] :
        f \in [1..m -> Shapes \X Shapes]}

\* every read of a given sequence length, for k-mers of length k
ReadsOfLength(len, k) ==
    {SquiggleRead(s, m, <<>>, <<>>) :
        s \in Strings(len), m \in Maps(Max(0, len - k + 1))}

EvenRanks == Filter([r \in Ranks |-> r % 2 = 0])

InitCall ==
    /\ pc = "call"
    /\ \E len \in 0..MaxSeqLen : \E r \in ReadsOfLength(len, basecalled_k) :
       \E strand_idx \in {T_IDX, C_IDX} : \E f \in {NullFilter, EvenRanks} :
          call = [status |-> "pending", read |-> r, k |-> basecalled_k,
                  strand_idx |-> strand_idx, filter |-> f,
                  alignment |-> <<>>, n_kmers |-> 0, accessed |-> 0]
    /\ Fresh(<<"trainmodel">>, Disk(<<>>))

CallGenerateAlignment ==
    /\ pc = "call"
    /\ call.status = "pending"
    /\ \E g \in generate_alignment_to_basecalls(call.read, call.k, call.strand_idx,
                                                 call.filter) :
          call' = [call EXCEPT !.status = g.status, !.alignment = g.alignment,
                               !.n_kmers = g.n_kmers, !.accessed = g.accessed]
    /\ UNCHANGED <<pc, argv, optind, verbose, fofn_file, out, err, exit_status,
                   disk, fofn_reader, reads, heap, tsv_writer, read_idx, alignment,
                   read_training_data, rti, max_events, max_events_index,
                   pore_model, selected, use_kmer, ki, values, median, apply_idx,
                   recal_idx, recalibrated>>

SpecCall == InitCall /\ [][CallGenerateAlignment]_vars

----------------------------------------------------------------------------
(* Properties                                                              *)

SeqRange(q) == {q[i] : i \in 1..Len(q)}

\* the number of training observations of a table, over all k-mer ranks
RECURSIVE SumOver(_, _)
SumOver(f, S) ==
    IF S = {} THEN 0
    ELSE LET x == CHOOSE y \in S : TRUE IN Len(f[x]) + SumOver(f, S \ {x})

EventTotals == [i \in 1..Len(read_training_data) |-> SumOver(read_training_data[i], Ranks)]

SelectionOver ==
    \/ pc = "select" /\ rti >= Len(read_training_data)
    \/ pc \in {"build", "apply", "done"}

\* C1: once the selection loop is over a non-empty list of per-read event
\* totals, max_events_index is the smallest index whose total is the maximum
\* of the list (the earliest read on a tie, index 0 when every total is 0),
\* and max_events is that maximum.
C1_FirstMaximum ==
    (SelectionOver /\ Len(read_training_data) > 0) =>
        /\ max_events_index < Len(read_training_data)
        /\ \A i \in 1..Len(read_training_data) :
              /\ EventTotals[i] <= EventTotals[max_events_index + 1]
              /\ i < max_events_index + 1 => EventTotals[i] < EventTotals[max_events_index + 1]
        /\ max_events = EventTotals[max_events_index + 1]

\* two reads tie for a positive maximum, and the selection is over
C1_Witness ==
    /\ SelectionOver
    /\ Len(read_training_data) = 2
    /\ EventTotals[1] = EventTotals[2]
    /\ EventTotals[1] > 0

\* the ascending arrangement of a list of numbers, from the list alone
Ascending(q) ==
    CHOOSE v \in [1..Len(q) -> SeqRange(q)] :
        /\ \A i \in 1..(Len(q) - 1) : v[i] <= v[i + 1]
        /\ \A x \in SeqRange(q) :
              Cardinality({i \in 1..Len(q) : v[i] = x}) =
              Cardinality({i \in 1..Len(q) : q[i] = x})

\* the median the specification describes, twice over (no division)
TwiceMedian(q) ==
    LET n == Len(q)
        v == Ascending(q)
    IN IF n % 2 = 1 THEN 2 * v[(n \div 2) + 1]
       ELSE v[n \div 2] + v[(n \div 2) + 1]

ObservedLevels(table, r) == [i \in 1..Len(table[r]) |-> table[r][i].level_mean]

\* C2: for every k-mer rank the construction loop has passed, with n the
\* number of levels the selected table holds for it and v those levels in
\* ascending order: the model mean is v[n/2] for odd n, the mean of
\* v[n/2 - 1] and v[n/2] for even n > 0, whatever the order of the
\* observations; for n = 0 the median local is the fallback 0, the model
\* state of the rank is as it was constructed, and the k-mer is not usable.
C2_Median ==
    (pc \in {"build", "apply", "done"}) =>
        \A r \in Ranks : r < ki =>
            LET q == ObservedLevels(selected, r)
            IN IF Len(q) = 0
               THEN /\ pore_model.states[r] = DefaultState
                    /\ ~use_kmer[r]
                    /\ (r = ki - 1 => median = 0)
               ELSE /\ 2 * pore_model.states[r].level_mean = TwiceMedian(q)
                    /\ pore_model.states[r].level_stdv = 1
                    /\ use_kmer[r]
                    /\ (r = ki - 1 => 2 * median = TwiceMedian(q))

\* the loop is over a table with an odd and an even number of levels, both
\* recorded out of order, and a k-mer without any
C2_Witness ==
    /\ pc = "done"
    /\ \E r \in Ranks : LET q == ObservedLevels(selected, r)
                        IN Len(q) = 3 /\ q[1] > q[2] /\ q[3] > q[2]
    /\ \E r \in Ranks : LET q == ObservedLevels(selected, r)
                        IN Len(q) = 2 /\ q[1] > q[2]
    /\ \E r \in Ranks : Len(selected[r]) = 0


\* the k-mer positions of a sequence: those ki with ki + k <= length
KmerPositions(seq, k) == {p \in 0..(Len(seq) - 1) : p + k <= Len(seq)}

\* the positions of a read whose event range on a strand is exactly one event
SingleEventPositions(read, k, strand_idx) ==
    {p \in KmerPositions(read.read_sequence, k) :
        /\ p < Len(read.base_to_event_map)
        /\ LET range == read.base_to_event_map[p + 1].indices[strand_idx + 1]
           IN range.start # -1 /\ range.start = range.stop}

\* an alignment is exactly the single-event positions of a read, in order
ExactAlignment(a, read, k, strand_idx) ==
    /\ \A i \in 1..Len(a) :
          /\ a[i].ref_position \in SingleEventPositions(read, k, strand_idx)
          /\ a[i].event_idx =
                read.base_to_event_map[a[i].ref_position + 1].indices[strand_idx + 1].start
          /\ a[i].strand_idx = strand_idx
    /\ \A p \in SingleEventPositions(read, k, strand_idx) :
          \E i \in 1..Len(a) : a[i].ref_position = p
    /\ \A i \in 1..(Len(a) - 1) : a[i].ref_position < a[i + 1].ref_position

\* C3: a call of generate_alignment_to_basecalls without a filter returns an
\* alignment with an entry for position ki exactly when the event range of ki
\* on the strand is one event; each entry has that event and ref_position ki,
\* and the entries are in increasing order of position, one per position.
C3_ExactAlignment ==
    (call.status = "returned" /\ call.filter.null) =>
        ExactAlignment(call.alignment, call.read, call.k, call.strand_idx)

\* a call without a filter has returned one entry for a read with a k-mer of
\* one event, a k-mer of two events and the other strand mapped differently
C3_Witness ==
    /\ call.status = "returned"
    /\ call.filter.null
    /\ Len(call.alignment) = 1
    /\ call.alignment[1].ref_position = 1
    /\ Len(call.read.base_to_event_map) = 2
    /\ call.read.base_to_event_map[1].indices[call.strand_idx + 1] = IndexPair(0, 1)
    /\ call.read.base_to_event_map[1].indices[2 - call.strand_idx] = IndexPair(0, 0)

ModelBuilt == pc \in {"apply", "done"}

\* C4: after model construction use_kmer[r] holds exactly for the ranks the
\* selected read has a training observation of, the mean of such a rank is
\* the median of that read's observations, and every other rank (seen only
\* in other reads, or in none) keeps the default state.
C4_SelectedReadOnly ==
    ModelBuilt =>
        \A r \in Ranks :
            LET seen == /\ max_events_index < Len(read_training_data)
                        /\ Len(read_training_data[max_events_index + 1][r]) > 0
            IN /\ use_kmer[r] <=> seen
               /\ seen => 2 * pore_model.states[r].level_mean =
                          TwiceMedian(ObservedLevels(read_training_data[max_events_index + 1], r))
               /\ ~seen => pore_model.states[r] = DefaultState

\* the model is built from the second of two reads, and the first read has
\* observations of a k-mer the second has none of
C4_Witness ==
    /\ pc = "done"
    /\ Len(read_training_data) = 2
    /\ max_events_index = 1
    /\ \E r \in Ranks : use_kmer[r]
    /\ \E r \in Ranks : ~use_kmer[r] /\ Len(read_training_data[1][r]) > 0

\* the arguments as given, after the program name
GivenArgs == Tail(argv)
ArgumentError ==
    /\ \/ Len(Positionals(GivenArgs)) # 1
       \/ "--bogus" \in SeqRange(GivenArgs)
    /\ "--help" \notin SeqRange(GivenArgs)
    /\ "--version" \notin SeqRange(GivenArgs)
WellFormedArgs ==
    /\ Len(Positionals(GivenArgs)) = 1
    /\ SeqRange(GivenArgs) \cap Options \subseteq {"-v"}

\* C5: with no, or more than one, positional argument, or with an unknown
\* option, and neither --help nor --version, the process has exited with
\* failure once option parsing is over, with the file list never opened, no
\* read loaded and trainmodel.tsv not created; with exactly one positional
\* argument and known options only it has not exited in option parsing and
\* that argument is the file list path.
C5_ArgumentValidation ==
    (pc # "parse") =>
        /\ ArgumentError =>
              /\ pc = "exited"
              /\ exit_status = "EXIT_FAILURE"
              /\ fofn_reader.path = ""
              /\ reads = <<>>
              /\ tsv_writer = Closed
        /\ WellFormedArgs =>
              /\ pc # "exited"
              /\ fofn_file = Positionals(GivenArgs)[1]
        /\ exit_status = "EXIT_FAILURE" => fofn_reader.path = "" /\ tsv_writer = Closed

\* option parsing has refused two positional arguments
C5_Witness ==
    /\ pc = "exited"
    /\ exit_status = "EXIT_FAILURE"
    /\ Len(Positionals(GivenArgs)) = 2
    /\ SeqRange(GivenArgs) \cap Options = {"-v"}

\* C6 as stated: whenever option parsing ends the process with failure, the
\* usage message has been written to standard error.
C6_UsageOnStderr ==
    (pc = "exited" /\ exit_status = "EXIT_FAILURE") => "USAGE" \in SeqRange(err)

\* C6: whenever option parsing has found an argument error, the process has
\* ended with failure, the usage message is the last thing written to
\* standard output, and standard error holds the diagnostics alone (not
\* enough arguments, too many arguments, getopt's unrecognized option).
C6_UsageOnStdout ==
    (pc # "parse" /\ ArgumentError) =>
        /\ pc = "exited" /\ exit_status = "EXIT_FAILURE"
        /\ out # <<>> /\ out[Len(out)] = "USAGE"
        /\ "USAGE" \notin SeqRange(err)
        /\ err # <<>>
        /\ SeqRange(err) \subseteq
              {"not enough arguments", "too many arguments", "unrecognized option"}

\* option parsing has refused an unknown option given with one positional
C6_Witness ==
    /\ pc = "exited"
    /\ exit_status = "EXIT_FAILURE"
    /\ "--bogus" \in SeqRange(GivenArgs)
    /\ Len(Positionals(GivenArgs)) = 1
    /\ out = <<"USAGE">>


\* the rank of the k-mer of an alignment entry
EntryRank(e) == kmer_rank(e.model_kmer, basecalled_k)

\* C7: the alignment handed to recalibrate_model for a read holds entries of
\* usable k-mers only, and is the unfiltered alignment of that read (the one
\* of the extraction loop) without the entries of unusable k-mers, in the
\* same order; for the selected read it is the unfiltered alignment itself.
C7_FilteredAlignment ==
    \A i \in 1..Len(recalibrated) :
        LET c == recalibrated[i]
            unfiltered == alignment[c.read + 1]
        IN /\ \A j \in 1..Len(c.alignment) : use_kmer[EntryRank(c.alignment[j])]
           /\ c.alignment = SelectSeq(unfiltered, LAMBDA e : use_kmer[EntryRank(e)])
           /\ c.read = max_events_index => c.alignment = unfiltered

\* a read that is not the selected one was recalibrated on a part of its
\* unfiltered alignment
C7_Witness ==
    \E i \in 1..Len(recalibrated) :
        /\ recalibrated[i].read # max_events_index
        /\ Len(recalibrated[i].alignment) > 0
        /\ Len(recalibrated[i].alignment) < Len(alignment[recalibrated[i].read + 1])

\* the scalars and the table a read's model shares with the constructed model
SameTable(m) ==
    /\ m.k = pore_model.k
    /\ m.states = pore_model.states
    /\ m.baked = pore_model.baked
    /\ m.scale_sd = pore_model.scale_sd
    /\ m.var_sd = pore_model.var_sd

C8_State ==
    /\ ModelBuilt =>
          \* the constructed model stays as it was built
          /\ pore_model.shift = 0 /\ pore_model.scale = 1
          /\ pore_model.drift = 0 /\ pore_model.var = 1
          /\ \A r \in Ranks :
                /\ use_kmer[r] <=> Len(selected[r]) > 0
                /\ 2 * pore_model.states[r].level_mean =
                      (IF Len(selected[r]) > 0
                       THEN TwiceMedian(ObservedLevels(selected, r)) ELSE 0)
          \* no read is recalibrated before every read has the model
          /\ recalibrated # <<>> => apply_idx = Len(reads)
          \* a read that has been assigned the model and is not yet
          \* recalibrated holds a copy of it
          /\ \A i \in 1..Len(reads) :
                (i <= apply_idx /\ i > Len(recalibrated)) =>
                    reads[i].pore_model[training_strand + 1] = pore_model
          \* a recalibrated read keeps the table of the constructed model,
          \* and the other strand's model is the loaded one
          /\ \A i \in 1..Len(reads) :
                /\ i <= apply_idx => SameTable(reads[i].pore_model[training_strand + 1])
                /\ reads[i].pore_model[C_IDX + 1] = LoadedModel
          \* the calls of recalibrate_model are in load order, one per read
          /\ \A i \in 1..Len(recalibrated) : recalibrated[i].read = i - 1
          /\ Len(recalibrated) = recal_idx
    /\ pc = "done" => Len(recalibrated) = Len(reads)

\* a step that recalibrates a read changes that read alone
C8_Step ==
    (pc = "apply" /\ Len(recalibrated') = Len(recalibrated) + 1) =>
        /\ pore_model' = pore_model
        /\ use_kmer' = use_kmer
        /\ Len(reads') = Len(reads)
        /\ \A i \in 1..Len(reads) : i # Len(recalibrated) + 1 => reads'[i] = reads[i]

\* C8: every read is assigned a copy of the one constructed model (shift 0,
\* scale 1, drift 0, var 1, the per-k-mer medians) on the training strand
\* before any read is recalibrated; the reads are then recalibrated once each,
\* in load order, and a recalibration changes the scalars of that read's own
\* model only: the constructed model, its means, the usable flags and the
\* models of the other reads stay as they are.
C8_CopyPerRead == [](C8_State) /\ [][C8_Step]_vars

\* two reads are done: the first with fitted scalars, the second left as copied
C8_Witness ==
    /\ pc = "done"
    /\ Len(reads) = 2
    /\ reads[1].pore_model[training_strand + 1].shift = 2
    /\ reads[2].pore_model[training_strand + 1] = pore_model
    /\ Len(recalibrated[2].alignment) > 0

\* C9: whenever model construction is at the point of reading
\* read_training_data[max_events_index] (line 257), max_events_index is below
\* the number of entries of read_training_data.
C9_IndexInBounds ==
    (pc = "select" /\ rti >= Len(read_training_data)) =>
        max_events_index < Len(read_training_data)

\* C10: a call of generate_alignment_to_basecalls on a sequence of length L
\* computes n_kmers = max(0, L - k + 1) and reads base_to_event_map at no
\* position past the k-mers of the sequence.
C10_VisitsKmersOnly ==
    (call.status \in {"returned", "killed"}) =>
        LET L == Len(call.read.read_sequence)
        IN /\ call.n_kmers = Max(0, L - call.k + 1)
           /\ call.accessed <= Max(0, L - call.k + 1)

====
